---- MODULE Spec2Model ----
(***************************************************************************)
(* Model of asyncEffect (packages/redux-async-effect, the per-item branch): *)
(* an input stream of events, a user handler called once per event, the    *)
(* classification of what the handler returns (promise / iterator / plain  *)
(* value), the inner stream built from it (flatten one level, catchError   *)
(* to the logger, filter undefined) and the outer flatMap / switchMap that *)
(* merges the inner streams into the output stream. Further               *)
(* specifications follow the raw branch of asyncEffect (RawSpec: the       *)
(* handler is given the whole input stream as an async generator), one     *)
(* call of getLatest (GLSpec), two iterator loops on the microtask queue   *)
(* (LoopSpec), an error sink that feeds the input stream (PushSpec) and    *)
(* handlers returning objects of every shape (ShapeSpec).                  *)
(***************************************************************************)
EXTENDS Integers, Sequences, FiniteSets, TLC

\* ------------------------------------------------------------------ bounds
MaxInputs == 2      \* input events delivered to the operator in one run
MaxSteps == 2       \* values an iterator handler yields before it ends

\* ------------------------------------------------------- JavaScript values
Undef == [tag |-> "undef", v |-> "-", elems |-> <<>>]
Val(x) == [tag |-> "val", v |-> x, elems |-> <<>>]
Arr(s) == [tag |-> "arr", v |-> "-", elems |-> s]
\* an object that is neither an array nor a Promise, known by which of the
\* properties next, return, throw and then it has
Obj(props) == [tag |-> "obj", v |-> props, elems |-> <<>>]

\* the k-th event of the input stream (opaque values; the test suites feed
\* ACTION1 and ACTION2)
EventAt(k) == IF k % 2 = 1 THEN "ACTION1" ELSE "ACTION2"

\* values a handler returns directly or resolves a promise with
ResultValues ==
  { Undef, Val("a"), Arr(<<>>), Arr(<<Val("a"), Val("b")>>),
    Arr(<<Val("a"), Undef>>), Arr(<<Arr(<<>>)>>) }

\* the value an iterator handler yields at its k-th step
StepAt(k) ==
  CASE k % 3 = 1 -> Val("a")
    [] k % 3 = 2 -> Arr(<<Val("b"), Undef>>)
    [] OTHER -> Undef

\* What one call of the handler does: throw synchronously (err), return a
\* plain value (val), return a promise, or return an iterator. How a promise
\* settles and what an iterator does at each pull is decided when it happens.
HandlerOutcomes ==
  { [kind |-> "throw", val |-> Undef, err |-> "err"] }
  \cup { [kind |-> "value", val |-> v, err |-> "-"] : v \in ResultValues }
  \cup { [kind |-> "promise", val |-> Undef, err |-> "-"],
         [kind |-> "iter", val |-> Undef, err |-> "-"] }

\* -------------------------------------------------------------------- state
VARIABLES
  switch,     \* config.switch: TRUE = switchMap (preempt), FALSE = flatMap
  inStatus,   \* input stream: "open", "completed", "failed"
  outStatus,  \* output stream: "open", "completed", "failed", "unsubscribed"
  outErr,     \* the error the output stream failed with ("-" if none)
  out,        \* events emitted on the output stream: [inv, val]
  received,   \* input events delivered to the operator, in arrival order
  calls,      \* arguments of the handler calls, in call order
  inv,        \* invocations, in start order (one record per handler call)
  logged,     \* calls of the error sink: [inv, err, threw, seen]
  raw,        \* the effect built with config.raw (a record, "-" when not built)
  gl,         \* one call of getLatest (a record, "-" when not made)
  mq          \* the microtask queue of the host ("-" when it is not followed)

vars == <<switch, inStatus, outStatus, outErr, out, received, calls, inv, logged,
          raw, gl, mq>>

\* the part of the state the stream operators transform
Cur ==
  [inStatus |-> inStatus, outStatus |-> outStatus, outErr |-> outErr,
   out |-> out, inv |-> inv, logged |-> logged]

Install(S) ==
  /\ inStatus' = S.inStatus
  /\ outStatus' = S.outStatus
  /\ outErr' = S.outErr
  /\ out' = S.out
  /\ inv' = S.inv
  /\ logged' = S.logged

\* an invocation: what the handler call did plus the inner subscription
\*   kind, val, err  the handler outcome; val / err are filled in when the
\*                   promise settles or the iterator throws
\*   st       "active"    inner stream subscribed and not yet terminated
\*            "finished"  inner stream completed (also after an isolated failure)
\*            "cancelled" inner subscription torn down (done flag set)
\*            "threw"     the handler call or the classification threw
\*   outcome  "-" while the promise is pending / the loop is running, then
\*            "resolved", "rejected" (promise), "done", "threw", "broke" (loop)
\*   yielded  the values the iterator has yielded so far
\*   pulls    next() calls issued on the iterator so far
Invocation(e, b, st) ==
  [event |-> e, kind |-> b.kind, val |-> b.val, err |-> b.err, st |-> st,
   outcome |-> "-", yielded |-> <<>>, pulls |-> 0]

\* ------------------------------------------------------------ classification
\* the three property names isIterator looks for
ProducerOps == {"next", "return", "throw"}

\* variant: an object counts as an iterator as soon as it has a next property
isIterator_AnyOp(b) ==
  IF b.kind = "value" /\ b.val.tag = "undef" THEN "TypeError"
  ELSE IF b.kind = "iter" THEN "yes"
  ELSE IF b.kind = "value" /\ b.val.tag = "obj" /\ "next" \in b.val.v THEN "yes"
  ELSE "no"

\* isIterator(value): reads value.next, value.return and value.throw; reading
\* a property of undefined raises a TypeError. A result of kind "iter" is an
\* object with all three that can be iterated.
isIterator(b) ==
  IF b.kind = "value" /\ b.val.tag = "undef" THEN "TypeError"
  ELSE IF b.kind = "iter" THEN "yes"
  ELSE IF b.kind = "value" /\ b.val.tag = "obj" /\ ProducerOps \subseteq b.val.v THEN "yes"
  ELSE "no"

\* the if / else-if / else chain of innerStream on the handler's result
Classify(b) ==
  IF b.kind = "promise" THEN "deferred"
  ELSE IF isIterator(b) = "TypeError" THEN "TypeError"
  ELSE IF isIterator(b) = "yes" THEN "producer"
  ELSE "immediate"

\* ------------------------------------------------------------- normalization
\* variant: every result, collections included, is passed on as one item
Flatten_Single(v) == <<v>>

\* variant: an empty collection is passed on as one item
Flatten_NonEmptyOnly(v) == IF v.tag = "arr" /\ v.elems # <<>> THEN v.elems ELSE <<v>>

\* flatMap(actions => (Array.isArray(actions) ? actions : of(actions)))
Flatten(v) == IF v.tag = "arr" THEN v.elems ELSE <<v>>

\* variant: the trailing filter is missing
FilterDefined_Off(s) == s

\* filter(x => x !== undefined)
FilterDefined(s) == SelectSeq(s, LAMBDA x : x.tag # "undef")

\* ----------------------------------------------------------- stream plumbing
\* variant: an abandoned inner stream counts as running until its promise or
\* iterator has settled
NoActive_AllSettled(invs) ==
  \A k \in DOMAIN invs :
    invs[k].st # "active" /\ (invs[k].st = "cancelled" => invs[k].outcome # "-")

NoActive(invs) == \A k \in DOMAIN invs : invs[k].st # "active"

\* unsubscribing the inner subscriptions runs each teardown (done = true)
CancelAll(invs) ==
  [k \in DOMAIN invs |->
     IF invs[k].st = "active" THEN [invs[k] EXCEPT !.st = "cancelled"] ELSE invs[k]]

\* destination.error(e) of the outer operator: the output stream fails and
\* the whole chain (input subscription, inner subscriptions) is torn down
OutError(S, e) ==
  [S EXCEPT !.outStatus = "failed", !.outErr = e, !.inv = CancelAll(S.inv)]

\* variant: the events of a delivered value are put in front of the events
\* already emitted
Emit_Prepend(S, i, v) ==
  IF S.outStatus = "open" /\ S.inv[i].st = "active"
  THEN LET items == FilterDefined(Flatten(v))
       IN [S EXCEPT !.out = [k \in 1..Len(items) |-> [inv |-> i, val |-> items[k]]] \o S.out]
  ELSE S

\* variant: a value that is already on the output stream is not emitted again
Emit_Distinct(S, i, v) ==
  IF S.outStatus = "open" /\ S.inv[i].st = "active"
  THEN LET items == SelectSeq(FilterDefined(Flatten(v)),
                              LAMBDA x : \A k \in DOMAIN S.out : S.out[k].val # x)
       IN [S EXCEPT !.out = S.out \o [k \in 1..Len(items) |-> [inv |-> i, val |-> items[k]]]]
  ELSE S

\* a value delivered by the source of inner stream i goes through flatMap,
\* catchError (pass-through) and filter, then through the outer operator
Emit(S, i, v) ==
  IF S.outStatus = "open" /\ S.inv[i].st = "active"
  THEN LET items == FilterDefined(Flatten(v))
       IN [S EXCEPT !.out = S.out \o [k \in 1..Len(items) |-> [inv |-> i, val |-> items[k]]]]
  ELSE S

\* variant: the end of an inner stream never completes the output stream
InnerComplete_Forgets(S, i) ==
  IF S.inv[i].st # "active" THEN S ELSE [S EXCEPT !.inv[i].st = "finished"]

\* inner stream i completes: the outer operator completes the output stream
\* when the input has completed and no inner stream is left
InnerComplete(S, i) ==
  IF S.inv[i].st # "active" THEN S
  ELSE LET S1 == [S EXCEPT !.inv[i].st = "finished"]
       IN IF S1.inStatus = "completed" /\ NoActive(S1.inv)
          THEN [S1 EXCEPT !.outStatus = "completed"]
          ELSE S1

\* variant: the handler of catchError logs the error and rethrows it
CatchError_Rethrow(S, i, err, threw) ==
  IF S.inv[i].st # "active" THEN S
  ELSE OutError([S EXCEPT !.logged =
                   Append(S.logged, [inv |-> i, err |-> err, threw |-> threw,
                                     seen |-> Len(S.inv)])], err)

\* variant: the error reaches the sink even after the inner stream has been
\* unsubscribed
CatchError_Unguarded(S, i, err, threw) ==
  LET S1 == [S EXCEPT !.logged =
               Append(S.logged, [inv |-> i, err |-> err, threw |-> threw,
                                 seen |-> Len(S.inv)])]
  IN IF S.inv[i].st # "active" THEN S1
     ELSE IF threw THEN OutError(S1, "sinkErr") ELSE InnerComplete(S1, i)

\* variant: the error sink receives the newest failure ahead of the ones it
\* was given before
CatchError_LogFirst(S, i, err, threw) ==
  IF S.inv[i].st # "active" THEN S
  ELSE LET S1 == [S EXCEPT !.logged =
                     <<[inv |-> i, err |-> err, threw |-> threw,
                        seen |-> Len(S.inv)]>> \o S.logged]
       IN IF threw THEN OutError(S1, "sinkErr") ELSE InnerComplete(S1, i)

\* variant: a failure of the error sink is swallowed like the failure it was
\* reporting
CatchError_SinkIsolated(S, i, err, threw) ==
  IF S.inv[i].st # "active" THEN S
  ELSE InnerComplete([S EXCEPT !.logged =
                        Append(S.logged, [inv |-> i, err |-> err, threw |-> threw,
                                          seen |-> Len(S.inv)])], i)

\* catchError(err => { logger(err); return of() }): the error sink is called
\* with the raw error; if the sink returns, the inner stream completes; if
\* the sink itself throws (threw), that error goes on to the outer operator
CatchError(S, i, err, threw) ==
  IF S.inv[i].st # "active" THEN S
  ELSE LET S1 == [S EXCEPT !.logged =
                     Append(S.logged, [inv |-> i, err |-> err, threw |-> threw,
                                       seen |-> Len(S.inv)])]
       IN IF threw THEN OutError(S1, "sinkErr") ELSE InnerComplete(S1, i)

\* subscribing to the inner stream built for invocation i
SubscribeInner(S, i) ==
  LET b == S.inv[i]
  IN CASE Classify(b) = "immediate" -> InnerComplete(Emit(S, i, b.val), i)
       [] Classify(b) = "deferred" -> S
       [] Classify(b) = "producer" -> [S EXCEPT !.inv[i].pulls = 1]
       [] OTHER -> S

\* variant: the outer operator never unsubscribes the previous inner stream
Outer_KeepPrevious(S, sw) == S

\* variant: the outer operator unsubscribes the previous inner stream under
\* either policy
Outer_AlwaysSwitch(S, sw) == [S EXCEPT !.inv = CancelAll(S.inv)]

\* the outer operator on an input event: flatMap keeps the running inner
\* streams, switchMap unsubscribes the previous one first
Outer(S, sw) == IF sw THEN [S EXCEPT !.inv = CancelAll(S.inv)] ELSE S

\* innerStream(value) called by the outer operator's project step
Project(S, e, b, sw) ==
  IF b.kind = "throw"
  THEN OutError([S EXCEPT !.inv = Append(S.inv, Invocation(e, b, "threw"))], b.err)
  ELSE IF Classify(b) = "TypeError"
  THEN OutError([S EXCEPT !.inv = Append(S.inv, Invocation(e, b, "threw"))], "TypeError")
  ELSE LET S1 == Outer(S, sw)
           S2 == [S1 EXCEPT !.inv = Append(S1.inv, Invocation(e, b, "active"))]
       IN SubscribeInner(S2, Len(S2.inv))

\* ------------------------------------------------------------------- actions
Init ==
  /\ switch \in BOOLEAN
  /\ inStatus = "open"
  /\ outStatus = "open"
  /\ outErr = "-"
  /\ out = <<>>
  /\ received = <<>>
  /\ calls = <<>>
  /\ inv = <<>>
  /\ logged = <<>>
  /\ raw = "-"
  /\ gl = "-"
  /\ mq = "-"

\* variant: an event that arrives while an invocation is running is dropped
InputNext_SkipWhileBusy(e, b) ==
  /\ inStatus = "open" /\ outStatus = "open"
  /\ Len(received) < MaxInputs
  /\ received' = Append(received, e)
  /\ IF \E k \in DOMAIN inv : inv[k].st = "active"
     THEN UNCHANGED <<calls, inStatus, outStatus, outErr, out, inv, logged>>
     ELSE /\ calls' = Append(calls, e)
          /\ inStatus' = inStatus /\ outStatus' = outStatus /\ outErr' = outErr
          /\ logged' = logged
          /\ out' = out \o (IF b.kind = "value" /\ b.val.tag = "val"
                            THEN <<[inv |-> Len(inv) + 1, val |-> b.val]>> ELSE <<>>)
          /\ inv' = Append(inv, Invocation(e, b,
                        IF b.kind \in {"promise", "iter"} THEN "active" ELSE "finished"))
  /\ UNCHANGED <<raw, gl, mq, switch>>

\* the input stream emits its next event e; the handler called on it does b
InputNext(e, b) ==
  /\ inStatus = "open" /\ outStatus = "open"
  /\ Len(received) < MaxInputs
  /\ received' = Append(received, e)
  /\ calls' = Append(calls, e)
  /\ Install(Project(Cur, e, b, switch))
  /\ UNCHANGED <<raw, gl, mq, switch>>

\* variant: completion of the input completes the output at once
InputComplete_Eager ==
  /\ inStatus = "open" /\ outStatus = "open"
  /\ Install([Cur EXCEPT !.inStatus = "completed", !.outStatus = "completed"])
  /\ UNCHANGED <<raw, gl, mq, switch, received, calls>>

\* the input stream completes
InputComplete ==
  /\ inStatus = "open" /\ outStatus = "open"
  /\ Install(IF NoActive(inv)
             THEN [Cur EXCEPT !.inStatus = "completed", !.outStatus = "completed"]
             ELSE [Cur EXCEPT !.inStatus = "completed"])
  /\ UNCHANGED <<raw, gl, mq, switch, received, calls>>

\* variant: a failure of the input stream is treated like a handler failure
InputError_Swallowed(e) ==
  /\ inStatus = "open" /\ outStatus = "open"
  /\ inStatus' = "failed"
  /\ outStatus' = "completed"
  /\ logged' = Append(logged, [inv |-> 0, err |-> e, threw |-> FALSE, seen |-> Len(inv)])
  /\ inv' = CancelAll(inv)
  /\ UNCHANGED <<raw, gl, mq, switch, received, calls, outErr, out>>

\* the input stream fails with error e
InputError(e) ==
  /\ inStatus = "open" /\ outStatus = "open"
  /\ Install(OutError([Cur EXCEPT !.inStatus = "failed"], e))
  /\ UNCHANGED <<raw, gl, mq, switch, received, calls>>

\* the consumer unsubscribes from the output stream
Unsubscribe ==
  /\ outStatus = "open"
  /\ Install([Cur EXCEPT !.outStatus = "unsubscribed", !.inv = CancelAll(inv)])
  /\ UNCHANGED <<raw, gl, mq, switch, received, calls>>

Pending(i, kind) ==
  /\ i \in DOMAIN inv
  /\ inv[i].kind = kind
  /\ inv[i].st \in {"active", "cancelled"}
  /\ inv[i].outcome = "-"

\* the promise of invocation i resolves with v: from(handlerResult) emits v
\* and completes
PromiseResolve(i, v) ==
  /\ Pending(i, "promise")
  /\ LET S0 == [Cur EXCEPT !.inv[i].outcome = "resolved", !.inv[i].val = v]
     IN Install(InnerComplete(Emit(S0, i, v), i))
  /\ UNCHANGED <<raw, gl, mq, switch, received, calls>>

\* the promise of invocation i rejects with e: from(handlerResult) errors
PromiseReject(i, e, threw) ==
  /\ Pending(i, "promise")
  /\ threw => inv[i].st = "active"
  /\ LET S0 == [Cur EXCEPT !.inv[i].outcome = "rejected", !.inv[i].err = e]
     IN Install(CatchError(S0, i, e, threw))
  /\ UNCHANGED <<raw, gl, mq, switch, received, calls>>

\* variant: the loop hands every yielded value on without looking at done
IterYield_NoDoneCheck(i, v) ==
  /\ Pending(i, "iter")
  /\ Len(inv[i].yielded) < MaxSteps
  /\ LET S0 == [Cur EXCEPT !.inv[i].yielded = Append(@, v)]
         items == FilterDefined(Flatten(v))
     IN Install([S0 EXCEPT !.out = @ \o [k \in 1..Len(items) |-> [inv |-> i, val |-> items[k]]],
                           !.inv[i].pulls = @ + 1])
  /\ UNCHANGED <<raw, gl, mq, switch, received, calls>>

\* the pull in flight on the iterator of invocation i yields v: one turn of
\*   for await (const action of handlerResult) {
\*     if (done) break; subscriber.next(action); }
\* followed by the next pull
IterYield(i, v) ==
  /\ Pending(i, "iter")
  /\ Len(inv[i].yielded) < MaxSteps
  /\ LET S0 == [Cur EXCEPT !.inv[i].yielded = Append(@, v)]
     IN Install(IF inv[i].st = "cancelled"
                THEN [S0 EXCEPT !.inv[i].outcome = "broke"]
                ELSE [Emit(S0, i, v) EXCEPT !.inv[i].pulls = @ + 1])
  /\ UNCHANGED <<raw, gl, mq, switch, received, calls>>

\* the same turn of the loop when the consumer unsubscribes from the output
\* stream synchronously, inside subscriber.next(action), on the first item it
\* is handed (as first() / take(1) do): the teardown sets done = true, the
\* rest of a yielded collection is dropped, and when subscriber.next returns
\* the for await statement issues the next pull; done is read only after
\* that pull has resolved
IterYieldUnsubscribed(i, v) ==
  /\ Pending(i, "iter")
  /\ Len(inv[i].yielded) < MaxSteps
  /\ inv[i].st = "active" /\ outStatus = "open"
  /\ FilterDefined(Flatten(v)) # <<>>
  /\ LET first == Head(FilterDefined(Flatten(v)))
         S0 == [Cur EXCEPT !.inv[i].yielded = Append(@, v),
                           !.out = Append(@, [inv |-> i, val |-> first]),
                           !.outStatus = "unsubscribed"]
         S1 == [S0 EXCEPT !.inv = CancelAll(S0.inv)]
     IN Install([S1 EXCEPT !.inv[i].pulls = @ + 1])
  /\ UNCHANGED <<raw, gl, mq, switch, received, calls>>

\* variant: the loop sets the flag itself when the iterator is exhausted
IterDone_SetsFlag(i) ==
  /\ Pending(i, "iter")
  /\ Install([Cur EXCEPT !.inv[i].outcome = "done", !.inv[i].st = "cancelled"])
  /\ UNCHANGED <<raw, gl, mq, switch, received, calls>>

\* the pull in flight reports done: the loop ends, subscriber.complete()
IterDone(i) ==
  /\ Pending(i, "iter")
  /\ Install(InnerComplete([Cur EXCEPT !.inv[i].outcome = "done"], i))
  /\ UNCHANGED <<raw, gl, mq, switch, received, calls>>

\* variant: after reporting the failure the loop pulls the producer again
IterThrow_Retry(i, e, threw) ==
  /\ Pending(i, "iter")
  /\ threw => inv[i].st = "active"
  /\ LET S0 == [Cur EXCEPT !.inv[i].outcome = "threw", !.inv[i].err = e]
         S1 == CatchError(S0, i, e, threw)
     IN Install([S1 EXCEPT !.inv[i].pulls = @ + 1])
  /\ UNCHANGED <<raw, gl, mq, switch, received, calls>>

\* the pull in flight fails with e: the loop rejects, subscriber.error(e)
IterThrow(i, e, threw) ==
  /\ Pending(i, "iter")
  /\ threw => inv[i].st = "active"
  /\ LET S0 == [Cur EXCEPT !.inv[i].outcome = "threw", !.inv[i].err = e]
     IN Install(CatchError(S0, i, e, threw))
  /\ UNCHANGED <<raw, gl, mq, switch, received, calls>>

Next ==
  \/ \E b \in HandlerOutcomes : InputNext(EventAt(Len(received) + 1), b)
  \/ InputComplete
  \/ InputError("inErr")
  \/ Unsubscribe
  \/ \E i \in 1..MaxInputs, v \in ResultValues : PromiseResolve(i, v)
  \/ \E i \in 1..MaxInputs, threw \in BOOLEAN : PromiseReject(i, "err", threw)
  \/ \E i \in 1..MaxInputs : IterYield(i, StepAt(Len(inv[i].yielded) + 1))
  \/ \E i \in 1..MaxInputs : IterYieldUnsubscribed(i, StepAt(Len(inv[i].yielded) + 1))
  \/ \E i \in 1..MaxInputs : IterDone(i)
  \/ \E i \in 1..MaxInputs, threw \in BOOLEAN : IterThrow(i, "err", threw)

Spec == Init /\ [][Next]_vars

\* ================================================================= raw mode
\* asyncEffect(input, handler, { raw: true }): the handler is called once,
\* when the effect is built, with an async generator over the input stream
\* (inputGenerator); each subscription to the effect runs a for await loop
\* over what the handler returned. The handler modelled is the one of the
\* test suite: for await (const action of input) yield action.toUpperCase().
\* One subscription is followed from its start to its end.
MaxRawInputs == 3   \* items the input stream delivers to the observer
MaxSpins == 2       \* turns of the generator's loop that find nothing, as far as they are counted

itemVars == <<switch, inStatus, outStatus, outErr, out, received, calls, inv, logged>>

RawNames == <<"foo", "bar", "baz", "qux", "quux">>

\* the k-th item of the input stream: a value of its own, or undefined
RawItems(k) == {Val(RawNames[((k - 1) % Len(RawNames)) + 1]), Undef}

RawItemValues == UNION { RawItems(k) : k \in 1..MaxRawInputs }

\* action.toUpperCase()
Up(v) == Val(<<"UPPER", v.v>>)

\* the effect right after asyncEffect(...) returned
\*   calls     handler invocations so far       subs    subscriptions so far
\*   inStatus  the input stream                 sub     the generator's input subscription
\*   received  items given to observer.next     buffer  received, not yet shifted
\*   signal    signalPromise                    done    the generator's done flag
\*   gen       where the generator is: "idle" (not started), "await" (at await
\*             signalPromise.promise), "drain" (entering the second loop),
\*             "finished", "returned" (return() ran the finally), "failed"
\*   handed    items the generator yielded to the handler
\*   h         the handler's generator          loop    the subscription's loop
\*   pulls     next() calls of the loop         ldone   the loop's done flag
\*   spins     turns of the first loop that found the buffer empty
\*   sinkThrew the logger threw when it was called
RawStart ==
  [calls |-> 1, subs |-> 0, inStatus |-> "open", inErr |-> "-", sub |-> "none",
   received |-> <<>>, buffer |-> <<>>, signal |-> "pending", done |-> FALSE,
   gen |-> "idle", handed |-> <<>>, h |-> "idle", loop |-> "none", pulls |-> 0,
   ldone |-> FALSE, outStatus |-> "idle", out |-> <<>>, logged |-> <<>>, spins |-> 0,
   sinkThrew |-> FALSE]

\* variant: a new item goes to the front of the buffer
BufferPush_Front(buf, v) == <<v>> \o buf

\* buffer.push(v)
BufferPush(buf, v) == Append(buf, v)

\* variant: resolving a promise that is already settled arms it again
Resolve_Rearm(sig) == IF sig = "pending" THEN "resolved" ELSE "pending"

\* signalPromise.resolve() / signalPromise.reject(err): a settled promise
\* stays as it is
Resolve(sig) == IF sig = "pending" THEN "resolved" ELSE sig
Reject(sig) == IF sig = "pending" THEN "rejected" ELSE sig

\* variant: every output of the handler is put on the output stream twice
RawEmit_Twice(R, v) ==
  IF R.outStatus = "open"
  THEN [R EXCEPT !.out = @ \o FilterDefined(Flatten(v)) \o FilterDefined(Flatten(v))]
  ELSE R

\* subscriber.next(action) of the output loop, through flatMap and filter
RawEmit(R, v) ==
  IF R.outStatus = "open" THEN [R EXCEPT !.out = @ \o FilterDefined(Flatten(v))] ELSE R

\* loop().then(() => subscriber.complete(), ...)
LoopEnd(R) ==
  [R EXCEPT !.loop = "ended",
            !.outStatus = IF @ = "open" THEN "completed" ELSE @]

\* variant: without catchError the error goes on to the output stream
LoopFail_Propagates(R, err, threw) ==
  [R EXCEPT !.loop = "ended",
            !.outStatus = IF @ = "open" THEN "failed" ELSE @,
            !.ldone = IF R.outStatus = "open" THEN TRUE ELSE @]

\* loop().then(..., err => subscriber.error(err)), then catchError: the
\* logger gets err; if it returns, the output completes; if it throws
\* (threw), the output stream fails and its teardown runs
LoopFail(R, err, threw) ==
  IF R.outStatus # "open" THEN [R EXCEPT !.loop = "ended"]
  ELSE [R EXCEPT !.loop = "ended",
                 !.logged = Append(@, err),
                 !.sinkThrew = threw,
                 !.outStatus = IF threw THEN "failed" ELSE "completed",
                 !.ldone = IF threw THEN TRUE ELSE @]

\* the generator runs off its end: finally { sub.unsubscribe() }; the
\* handler's for await ends, the handler returns, the loop ends
GenFinish(R) ==
  LoopEnd([R EXCEPT !.gen = "finished", !.sub = "unsubscribed", !.h = "finished"])

\* the generator yields elem: the handler yields its upper-case form and the
\* loop looks at its done flag: break (return() runs the handler's and the
\* generator's finally), or subscriber.next and the next pull, which takes
\* the generator back to the top of its loop
GenYield(R, elem) ==
  LET R1 == [R EXCEPT !.handed = Append(@, elem)]
  IN IF R1.ldone
     THEN [R1 EXCEPT !.gen = "returned", !.sub = "unsubscribed", !.h = "returned",
                     !.loop = "ended"]
     ELSE [RawEmit(R1, Up(elem)) EXCEPT !.pulls = @ + 1,
                                       !.gen = IF R1.done THEN "drain" ELSE "await"]

RECURSIVE DropUndefined(_)
DropUndefined(buf) ==
  IF buf = <<>> THEN <<>>
  ELSE IF Head(buf).tag = "undef" THEN DropUndefined(Tail(buf)) ELSE buf

RawInit ==
  /\ switch = FALSE /\ inStatus = "open" /\ outStatus = "open" /\ outErr = "-"
  /\ out = <<>> /\ received = <<>> /\ calls = <<>> /\ inv = <<>> /\ logged = <<>>
  /\ raw = RawStart
  /\ gl = "-"
  /\ mq = "-"

\* effect.subscribe(...): the loop pulls the handler, the handler pulls the
\* generator, the generator subscribes to the input and waits for the signal
RawSubscribe ==
  /\ raw.subs = 0
  /\ raw' = [raw EXCEPT !.subs = 1, !.outStatus = "open", !.loop = "pulling",
                        !.pulls = 1, !.h = "waiting", !.gen = "await",
                        !.sub = "subscribed"]
  /\ UNCHANGED <<itemVars, gl, mq>>

\* observer.next(v)
RawInputNext(v) ==
  /\ raw.sub = "subscribed" /\ raw.inStatus = "open"
  /\ Len(raw.received) < MaxRawInputs
  /\ v \in RawItems(Len(raw.received) + 1)
  /\ raw' = [raw EXCEPT !.received = Append(@, v),
                        !.buffer = BufferPush(@, v),
                        !.signal = Resolve(@)]
  /\ UNCHANGED <<itemVars, gl, mq>>

\* observer.complete()
RawInputComplete ==
  /\ raw.sub = "subscribed" /\ raw.inStatus = "open"
  /\ raw' = [raw EXCEPT !.inStatus = "completed", !.signal = Resolve(@), !.done = TRUE]
  /\ UNCHANGED <<itemVars, gl, mq>>

\* observer.error(err)
RawInputError(err) ==
  /\ raw.sub = "subscribed" /\ raw.inStatus = "open"
  /\ raw' = [raw EXCEPT !.inStatus = "failed", !.inErr = err, !.signal = Reject(@)]
  /\ UNCHANGED <<itemVars, gl, mq>>

\* the generator gets past await signalPromise.promise: it throws if the
\* promise is rejected (the logger called with the error may throw);
\* otherwise it shifts the buffer and yields the element unless that is
\* undefined, in which case it goes round again
GenWake(threw) ==
  /\ raw.gen = "await" /\ raw.signal # "pending"
  /\ threw => (raw.signal = "rejected" /\ raw.outStatus = "open")
  /\ (raw.signal = "resolved" /\ raw.buffer = <<>> /\ ~raw.done) => raw.spins < MaxSpins
  /\ raw' =
       IF raw.signal = "rejected"
       THEN LoopFail([raw EXCEPT !.gen = "failed", !.sub = "unsubscribed", !.h = "failed"],
                     raw.inErr, threw)
       ELSE IF raw.buffer = <<>>
       THEN IF raw.done THEN GenFinish(raw) ELSE [raw EXCEPT !.spins = @ + 1]
       ELSE LET elem == Head(raw.buffer)
                R1 == [raw EXCEPT !.buffer = Tail(@)]
            IN IF elem.tag # "undef" THEN GenYield(R1, elem)
               ELSE [R1 EXCEPT !.gen = IF R1.done THEN "drain" ELSE "await"]
  /\ UNCHANGED <<itemVars, gl, mq>>

\* while (buffer.length > 0): the next element that is not undefined is
\* yielded; with none left the generator ends
GenDrain ==
  /\ raw.gen = "drain"
  /\ LET rest == DropUndefined(raw.buffer)
     IN raw' = IF rest = <<>> THEN GenFinish([raw EXCEPT !.buffer = <<>>])
               ELSE GenYield([raw EXCEPT !.buffer = Tail(rest)], Head(rest))
  /\ UNCHANGED <<itemVars, gl, mq>>

\* the consumer unsubscribes from the effect: the teardown sets done = true
RawUnsubscribe ==
  /\ raw.outStatus = "open"
  /\ raw' = [raw EXCEPT !.outStatus = "unsubscribed", !.ldone = TRUE]
  /\ UNCHANGED <<itemVars, gl, mq>>

RawNext ==
  \/ RawSubscribe
  \/ \E v \in RawItemValues : RawInputNext(v)
  \/ RawInputComplete
  \/ RawInputError("inErr")
  \/ \E threw \in BOOLEAN : GenWake(threw)
  \/ GenDrain
  \/ RawUnsubscribe

RawSpec == RawInit /\ [][RawNext]_vars

\* ================================================================ getLatest
\* getLatest(o, ...obs): o.pipe(first()).toPromise() for one observable,
\* combineLatest(o, ...obs).pipe(first()).toPromise() for several. The
\* record follows one call: what each observable has emitted while the call
\* was subscribed to it, and the promise.
MaxObs == 3         \* observables passed to getLatest
MaxEmits == 2       \* values one observable emits

\* the k-th value observable i emits
GLValue(i, k) == <<i, k>>

\* right after getLatest was called with n observables
GLStart(n) ==
  [n |-> n, seen |-> [i \in 1..n |-> <<>>], st |-> [i \in 1..n |-> "open"],
   promise |-> "pending", result |-> "-", err |-> "-"]

\* variant: the first value of an observable is kept, later ones are ignored
LatestOf_First(s) == s[1]

\* combineLatest keeps the most recent value of each observable
LatestOf(s) == s[Len(s)]

AllEmitted(G) == \A i \in 1..G.n : G.seen[i] # <<>>

\* what the promise resolves with: the value itself for one observable, the
\* array of the latest values, in argument order, for several
GLResult(G) ==
  IF G.n = 1 THEN G.seen[1][1] ELSE [i \in 1..G.n |-> LatestOf(G.seen[i])]

\* an observable delivered a value: first() passes on the first thing its
\* source emits, completes, and toPromise resolves with it
GLDeliver(G) ==
  IF AllEmitted(G) THEN [G EXCEPT !.promise = "resolved", !.result = GLResult(G)] ELSE G

\* an observable completed: the single observable, or the last of several
\* (combineLatest completes when all have), ends the source of first()
\* before it emitted anything: first() fails with EmptyError
GLEnd(G) ==
  IF \A i \in 1..G.n : G.st[i] = "completed"
  THEN [G EXCEPT !.promise = "rejected", !.err = "EmptyError"]
  ELSE G

GLInit ==
  /\ switch = FALSE /\ inStatus = "open" /\ outStatus = "open" /\ outErr = "-"
  /\ out = <<>> /\ received = <<>> /\ calls = <<>> /\ inv = <<>> /\ logged = <<>>
  /\ raw = "-"
  /\ \E n \in 1..MaxObs : gl = GLStart(n)
  /\ mq = "-"

\* observable i emits its next value while the call is subscribed
GLEmit(i) ==
  /\ i \in 1..gl.n /\ gl.promise = "pending" /\ gl.st[i] = "open"
  /\ Len(gl.seen[i]) < MaxEmits
  /\ gl' = GLDeliver([gl EXCEPT !.seen[i] = Append(@, GLValue(i, Len(@) + 1))])
  /\ UNCHANGED <<itemVars, raw, mq>>

\* observable i completes
GLComplete(i) ==
  /\ i \in 1..gl.n /\ gl.promise = "pending" /\ gl.st[i] = "open"
  /\ gl' = GLEnd([gl EXCEPT !.st[i] = "completed"])
  /\ UNCHANGED <<itemVars, raw, mq>>

\* observable i fails: the promise is rejected with the failure
GLError(i, e) ==
  /\ i \in 1..gl.n /\ gl.promise = "pending" /\ gl.st[i] = "open"
  /\ gl' = [gl EXCEPT !.st[i] = "failed", !.promise = "rejected", !.err = e]
  /\ UNCHANGED <<itemVars, raw, mq>>

GLNext ==
  \/ \E i \in 1..MaxObs : GLEmit(i)
  \/ \E i \in 1..MaxObs : GLComplete(i)
  \/ \E i \in 1..MaxObs : GLError(i, "err")

GLSpec == GLInit /\ [][GLNext]_vars

\* ========================================================= microtask order
\* Two invocations started in one synchronous turn, as when the input is
\* from([a, a]): subscribing to the effect delivers both events and the
\* completion of the input before any microtask runs. The handler is a
\* generator; each loop() is a chain of continuations on the host's microtask
\* queue, which runs them first in, first out. How many turns of the queue a
\* pull needs before it resolves is up to the generator (an async generator
\* may await between two yields), so it is chosen when the run starts.
MaxHops == 2        \* microtask turns one pull needs before it resolves

\* the turns needed by each pull of one invocation: one pull per yielded
\* value and the pull that reports done
HopPlans == [1..(MaxSteps + 1) -> 1..MaxHops]

\* the state when the synchronous turn of subscribe() is over
BurstStart ==
  LET iter == [kind |-> "iter", val |-> Undef, err |-> "-"]
      S0 == [inStatus |-> "open", outStatus |-> "open", outErr |-> "-",
             out |-> <<>>, inv |-> <<>>, logged |-> <<>>]
      S1 == Project(S0, EventAt(1), iter, FALSE)
      S2 == Project(S1, EventAt(1), iter, FALSE)
  IN [S2 EXCEPT !.inStatus = "completed"]

\* variant: the continuation that became ready last runs first
Enqueue_Front(q, job) == <<job>> \o q

\* a continuation that becomes ready goes to the back of the queue
Enqueue(q, job) == Append(q, job)

LoopInit ==
  /\ switch = FALSE
  /\ received = <<EventAt(1), EventAt(1)>>
  /\ calls = <<EventAt(1), EventAt(1)>>
  /\ inStatus = BurstStart.inStatus /\ outStatus = BurstStart.outStatus
  /\ outErr = BurstStart.outErr /\ out = BurstStart.out
  /\ inv = BurstStart.inv /\ logged = BurstStart.logged
  /\ raw = "-" /\ gl = "-"
  /\ \E h1 \in HopPlans, h2 \in HopPlans :
       mq = [hops |-> <<h1, h2>>,
             queue |-> Enqueue(Enqueue(<<>>, [i |-> 1, left |-> h1[1]]),
                               [i |-> 2, left |-> h2[1]])]

\* the pull of the invocation at the head of the queue is not resolved yet:
\* its chain takes one more turn
LoopHop ==
  /\ mq.queue # <<>>
  /\ Head(mq.queue).left > 1
  /\ mq' = [mq EXCEPT !.queue = Enqueue(Tail(@), [Head(@) EXCEPT !.left = @ - 1])]
  /\ UNCHANGED <<itemVars, raw, gl>>

\* the pull of the invocation at the head of the queue resolves with a value:
\* one turn of for await (if (done) break; subscriber.next(action)), then the
\* next pull
LoopYield ==
  /\ mq.queue # <<>>
  /\ Head(mq.queue).left = 1
  /\ LET i == Head(mq.queue).i
         k == Len(inv[i].yielded) + 1
         S0 == [Cur EXCEPT !.inv[i].yielded = Append(@, StepAt(k))]
     IN /\ k <= MaxSteps
        /\ Install(IF inv[i].st = "cancelled"
                   THEN [S0 EXCEPT !.inv[i].outcome = "broke"]
                   ELSE [Emit(S0, i, StepAt(k)) EXCEPT !.inv[i].pulls = @ + 1])
        /\ mq' = [mq EXCEPT !.queue =
                    IF inv[i].st = "cancelled" THEN Tail(@)
                    ELSE Enqueue(Tail(@), [i |-> i, left |-> mq.hops[i][k + 1]])]
  /\ UNCHANGED <<raw, gl, switch, received, calls>>

\* the pull of the invocation at the head of the queue reports done: the
\* loop ends, subscriber.complete()
LoopDone ==
  /\ mq.queue # <<>>
  /\ Head(mq.queue).left = 1
  /\ LET i == Head(mq.queue).i
     IN /\ Len(inv[i].yielded) = MaxSteps
        /\ Install(InnerComplete([Cur EXCEPT !.inv[i].outcome = "done"], i))
        /\ mq' = [mq EXCEPT !.queue = Tail(@)]
  /\ UNCHANGED <<raw, gl, switch, received, calls>>

\* the consumer unsubscribes from the output stream between two turns
LoopUnsubscribe ==
  /\ outStatus = "open"
  /\ Install([Cur EXCEPT !.outStatus = "unsubscribed", !.inv = CancelAll(inv)])
  /\ UNCHANGED <<raw, gl, mq, switch, received, calls>>

LoopNext ==
  \/ LoopHop
  \/ LoopYield
  \/ LoopDone
  \/ LoopUnsubscribe

LoopSpec == LoopInit /\ [][LoopNext]_vars

\* ================================================== input pushed by the sink
\* The error sink may feed the input stream itself, as the logger of the
\* test 'logs error with optional logger unwinding effect with switch' does:
\* config.logger = () => mockActions.next(mockAction2). The event is then
\* delivered, and the handler called on it, inside the call of the sink.

\* variant: the completion of of(), which catchError returns after the sink
\* call, is taken for the completion of the outer operator's newest inner stream
SinkPushes_CompleteNewest(S, i, err, e, b, sw) ==
  LET S1 == [S EXCEPT !.logged =
               Append(S.logged, [inv |-> i, err |-> err, threw |-> FALSE,
                                 seen |-> Len(S.inv)])]
      S2 == Project(S1, e, b, sw)
  IN InnerComplete(S2, Len(S2.inv))

\* catchError(err => { logger(err); return of() }) when logger(err) pushes
\* the event e into the input stream: the outer operator projects e (calls the
\* handler, which does b, and under switchMap unsubscribes inner stream i)
\* before the sink returns; then of() completes inner stream i, which goes
\* unnoticed if i has been unsubscribed in the meantime
SinkPushes(S, i, err, e, b, sw) ==
  LET S1 == [S EXCEPT !.logged =
               Append(S.logged, [inv |-> i, err |-> err, threw |-> FALSE,
                                 seen |-> Len(S.inv)])]
      S2 == Project(S1, e, b, sw)
  IN InnerComplete(S2, i)

\* the promise of the connected invocation i rejects and the sink pushes the
\* next input event, on which the handler does b
PromiseRejectPushing(i, err, b) ==
  /\ Pending(i, "promise")
  /\ inv[i].st = "active"
  /\ inStatus = "open" /\ outStatus = "open"
  /\ Len(received) < MaxInputs
  /\ received' = Append(received, EventAt(Len(received) + 1))
  /\ calls' = Append(calls, EventAt(Len(received) + 1))
  /\ LET S0 == [Cur EXCEPT !.inv[i].outcome = "rejected", !.inv[i].err = err]
     IN Install(SinkPushes(S0, i, err, EventAt(Len(received) + 1), b, switch))
  /\ UNCHANGED <<raw, gl, mq, switch>>

\* the pull in flight of the connected invocation i fails and the sink pushes
\* the next input event, on which the handler does b
IterThrowPushing(i, err, b) ==
  /\ Pending(i, "iter")
  /\ inv[i].st = "active"
  /\ inStatus = "open" /\ outStatus = "open"
  /\ Len(received) < MaxInputs
  /\ received' = Append(received, EventAt(Len(received) + 1))
  /\ calls' = Append(calls, EventAt(Len(received) + 1))
  /\ LET S0 == [Cur EXCEPT !.inv[i].outcome = "threw", !.inv[i].err = err]
     IN Install(SinkPushes(S0, i, err, EventAt(Len(received) + 1), b, switch))
  /\ UNCHANGED <<raw, gl, mq, switch>>

PushNext ==
  \/ \E b \in HandlerOutcomes : InputNext(EventAt(Len(received) + 1), b)
  \/ InputComplete
  \/ InputError("inErr")
  \/ Unsubscribe
  \/ \E i \in 1..MaxInputs, v \in ResultValues : PromiseResolve(i, v)
  \/ \E i \in 1..MaxInputs, threw \in BOOLEAN : PromiseReject(i, "err", threw)
  \/ \E i \in 1..MaxInputs : IterYield(i, StepAt(Len(inv[i].yielded) + 1))
  \/ \E i \in 1..MaxInputs : IterYieldUnsubscribed(i, StepAt(Len(inv[i].yielded) + 1))
  \/ \E i \in 1..MaxInputs : IterDone(i)
  \/ \E i \in 1..MaxInputs, threw \in BOOLEAN : IterThrow(i, "err", threw)
  \/ \E i \in 1..MaxInputs, b \in HandlerOutcomes : PromiseRejectPushing(i, "err", b)
  \/ \E i \in 1..MaxInputs, b \in HandlerOutcomes : IterThrowPushing(i, "err", b)

\* the effect is built with switch: true, as in the test
PushInit == Init /\ switch

PushSpec == PushInit /\ [][PushNext]_vars

\* ============================================================ result shapes
\* The per-item branch on handlers that return objects of every shape:
\* objects with some of the properties next, return, throw and then, which
\* are not instances of Promise. An object with all of next, return and
\* throw is the result of kind "iter".
ShapeProps == {"next", "return", "throw", "then"}

\* the objects that fail the test of isIterator
PartialObjects == { Obj(p) : p \in { q \in SUBSET ShapeProps : ~(ProducerOps \subseteq q) } }

\* what a call of the handler does: return such an object, a plain value, a
\* Promise or an iterator
ShapeOutcomes ==
  { [kind |-> "value", val |-> v, err |-> "-"] : v \in PartialObjects \cup {Val("a")} }
  \cup { [kind |-> "promise", val |-> Undef, err |-> "-"],
         [kind |-> "iter", val |-> Undef, err |-> "-"] }

\* what a Promise resolves with: promise resolution follows an object that
\* has a then, so the resolved value never has one
ShapeResolved == { v \in PartialObjects : "then" \notin v.v } \cup {Val("a")}

ShapeNext ==
  \/ \E b \in ShapeOutcomes : InputNext(EventAt(Len(received) + 1), b)
  \/ InputComplete
  \/ Unsubscribe
  \/ \E i \in 1..MaxInputs, v \in ShapeResolved : PromiseResolve(i, v)
  \/ \E i \in 1..MaxInputs : IterYield(i, StepAt(Len(inv[i].yielded) + 1))
  \/ \E i \in 1..MaxInputs : IterDone(i)

ShapeSpec == Init /\ [][ShapeNext]_vars

\* -------------------------------------------------------------------- claims
\* the values invocation i has put on the output stream, in emission order
OutOf(i) ==
  LET mine == SelectSeq(out, LAMBDA o : o.inv = i)
  IN [k \in 1..Len(mine) |-> mine[k].val]

SinkCallsFor(i) == { k \in DOMAIN logged : logged[k].inv = i }

\* this step: the promise of the connected invocation i rejects, or its
\* iterator fails at a pull
FailsNow(i) ==
  /\ inv[i].st = "active" /\ inv[i].outcome = "-"
  /\ inv'[i].outcome \in {"rejected", "threw"}

\* this step: the error sink is called and throws
SinkThrowsNow == Len(logged') > Len(logged) /\ logged'[Len(logged')].threw

\* this step leaves the output stream running: it does not fail, the input
\* subscription stays as it was, and the output completes only if the input
\* has completed and no invocation is left
StreamSurvives ==
  /\ outStatus' \in {"open", "completed"}
  /\ inStatus' = inStatus
  /\ outStatus' = "completed" => (inStatus = "completed" /\ NoActive(inv'))

HadIsolatedFailure == \E k \in DOMAIN logged : ~logged[k].threw

\* this step: an input event is delivered
ArrivesNow == Len(received') = Len(received) + 1

\* this step: the connected invocation i delivers the single value v
DeliversNow(i, v) ==
  /\ inv[i].st = "active" /\ inv[i].outcome = "-"
  /\ \/ inv'[i].outcome = "resolved" /\ inv'[i].val = v
     \/ Len(inv'[i].yielded) = Len(inv[i].yielded) + 1
        /\ inv'[i].yielded[Len(inv'[i].yielded)] = v

C2_SyncThrowIsolated ==
  \A i \in DOMAIN inv :
    inv[i].kind = "throw" =>
      /\ \E k \in SinkCallsFor(i) : logged[k].err = inv[i].err
      /\ OutOf(i) = <<>>
      /\ outStatus # "failed"

\* C3 as stated: for every invocation whose handler throws or rejects, under
\* either policy, the error sink is called exactly once for it, with the
\* thrown or rejected value itself.
C3_SinkOncePerFailure ==
  \A i \in DOMAIN inv :
    (inv[i].kind = "throw" \/ inv[i].outcome \in {"rejected", "threw"}) =>
      /\ Cardinality(SinkCallsFor(i)) = 1
      /\ \A k \in SinkCallsFor(i) : logged[k].err = inv[i].err

\* C4 as stated: the output stream is in the failed state only if the input
\* stream has failed.
C4_OutputFailsOnlyWithInput == outStatus = "failed" => inStatus = "failed"

\* C5: when the input stream fails, the output stream fails with that same
\* failure, whatever invocations are running; the failure is not handed to
\* the error sink and the output is not completed instead.
C5_InputFailurePropagates ==
  inStatus = "failed" =>
    /\ outStatus = "failed"
    /\ outErr = "inErr"
    /\ \A k \in DOMAIN logged : logged[k].err # "inErr"

\* C5 witness: the input failed while an invocation was still running
C5_Witness ==
  /\ inStatus = "failed" /\ outStatus = "failed"
  /\ \E i \in DOMAIN inv : inv[i].st = "cancelled" /\ inv[i].outcome = "-"

IsOutputValue(x) == x.tag # "undef"

\* invocation i returned, or resolved to, a collection of output values and
\* delivered it while connected
DeliveredCollection(i) ==
  /\ inv[i].kind = "value" \/ (inv[i].kind = "promise" /\ inv[i].outcome = "resolved")
  /\ inv[i].st = "finished"
  /\ inv[i].val.tag = "arr"
  /\ \A k \in DOMAIN inv[i].val.elems : IsOutputValue(inv[i].val.elems[k])

\* this step: invocation i (just started, or connected and resolving now)
\* delivers the value v as its whole result
ResultNow(i, v) ==
  \/ i = Len(inv) + 1 /\ Len(inv') = i /\ inv'[i].kind = "value" /\ inv'[i].val = v
  \/ /\ i \in DOMAIN inv /\ inv[i].st = "active" /\ inv[i].outcome = "-"
     /\ inv'[i].outcome = "resolved" /\ inv'[i].val = v

\* C6: an invocation whose handler returns, directly or through a promise, a
\* collection of K output values puts exactly those K values on the output
\* stream, in the collection's order, and nothing when K = 0; delivering an
\* empty collection leaves the stream running and the sink uncalled.
C6_CollectionExpanded ==
  /\ [](\A i \in DOMAIN inv : DeliveredCollection(i) => OutOf(i) = inv[i].val.elems)
  /\ [][\A i \in 1..(Len(inv) + 1) :
          ResultNow(i, Arr(<<>>)) =>
             (StreamSurvives /\ out' = out /\ logged' = logged)]_vars

\* C6 witness: one invocation delivered an empty collection, a later one a
\* collection of two values, both through a promise
C6_Witness ==
  \E i, j \in DOMAIN inv :
    /\ i < j
    /\ inv[i].kind = "promise" /\ DeliveredCollection(i) /\ inv[i].val.elems = <<>>
    /\ inv[j].kind = "promise" /\ DeliveredCollection(j) /\ Len(OutOf(j)) = 2

\* C7 as stated: no event on the output stream is undefined or an empty
\* collection, whatever the handler returns, resolves to or yields.
C7_NoAbsentOrEmptyEvent ==
  \A k \in DOMAIN out : out[k].val.tag # "undef" /\ out[k].val # Arr(<<>>)

\* the values invocation i has handed to its inner stream
Delivered(i) ==
  (IF inv[i].kind = "value" \/ inv[i].outcome = "resolved" THEN {inv[i].val} ELSE {})
  \cup { inv[i].yielded[k] : k \in DOMAIN inv[i].yielded }

\* C7 (amended): no event on the output stream is undefined, and a handler
\* result that is itself an empty collection is never emitted; a collection
\* appears on the output stream only as an element of a collection the
\* handler returned, resolved to or yielded (one level is flattened).
C7_NoAbsentEvent ==
  \A k \in DOMAIN out :
    /\ out[k].val.tag # "undef"
    /\ out[k].val.tag = "arr" =>
         \E d \in Delivered(out[k].inv) :
           d.tag = "arr" /\ \E n \in DOMAIN d.elems : d.elems[n] = out[k].val

\* C7 witness: a collection with an absent element was delivered and only
\* its present element was emitted; an iterator step did the same
C7_Witness ==
  /\ \E i \in DOMAIN inv :
       /\ inv[i].st = "finished" /\ inv[i].val = Arr(<<Val("a"), Undef>>)
       /\ OutOf(i) = <<Val("a")>>
  /\ \E j \in DOMAIN inv :
       /\ inv[j].yielded = <<Val("a"), Arr(<<Val("b"), Undef>>)>>
       /\ OutOf(j) = <<Val("a"), Val("b")>>

\* C8 as stated: when the handler synchronously returns undefined, no error
\* is raised: the invocation contributes no output, the error sink is not
\* called and the output stream keeps running.
C8_SyncUndefinedIsAbsence ==
  \A i \in DOMAIN inv :
    (inv[i].kind = "value" /\ inv[i].val = Undef) =>
      /\ inv[i].st = "finished"
      /\ OutOf(i) = <<>>
      /\ SinkCallsFor(i) = {}
      /\ ~(outStatus = "failed" /\ outErr = "TypeError")

\* C9: when the promise of an invocation resolves to undefined, the
\* invocation emits nothing, the error sink is not called for it, and the
\* step leaves the output stream running.
C9_ResolvedUndefinedEmitsNothing ==
  /\ [](\A i \in DOMAIN inv :
          (inv[i].kind = "promise" /\ inv[i].outcome = "resolved" /\ inv[i].val = Undef) =>
             (OutOf(i) = <<>> /\ SinkCallsFor(i) = {}))
  /\ [][\A i \in DOMAIN inv :
          (inv[i].kind = "promise" /\ ResultNow(i, Undef)) =>
             (StreamSurvives /\ out' = out /\ logged' = logged)]_vars

\* C9 witness: a promise resolved to undefined while connected, the stream
\* is open and a later invocation has emitted output
C9_Witness ==
  \E i, j \in DOMAIN inv :
    /\ i < j
    /\ inv[i].kind = "promise" /\ inv[i].outcome = "resolved" /\ inv[i].val = Undef
    /\ inv[i].st = "finished"
    /\ OutOf(j) # <<>>
    /\ outStatus = "open"

\* C10: under both policies the handler is called exactly once for each input
\* event, with that event, in arrival order; preemption skips no call.
C10_HandlerCalledPerEvent ==
  /\ calls = received
  /\ Len(inv) = Len(received)
  /\ \A i \in DOMAIN inv : inv[i].event = received[i]

\* C10 witness: under the preempt policy the second event preempted the
\* first invocation, and the handler was called for both
C10_Witness ==
  /\ switch
  /\ Len(calls) = 2 /\ calls[1] # calls[2]
  /\ inv[1].st = "cancelled"
  /\ inv[2].st = "active"

\* the values of o that invocation i put there, in emission order
OutOfIn(o, i) ==
  LET mine == SelectSeq(o, LAMBDA x : x.inv = i)
  IN [k \in 1..Len(mine) |-> mine[k].val]

\* C11: under the preempt policy, from the moment a later invocation starts,
\* an earlier invocation puts nothing more on the output stream, whatever its
\* promise resolves to or its iterator yields afterwards.
C11_PreemptedEmitsNoMore ==
  [][switch =>
       \A i \in DOMAIN inv : i < Len(inv') => OutOfIn(out', i) = OutOfIn(out, i)]_vars

\* a preempted producer that had emitted its first step was pulled to a
\* second step after the next event arrived, and that step is not on the
\* output; the later invocation's output is
C11_Witness ==
  /\ switch /\ Len(inv) = 2
  /\ inv[1].kind = "iter" /\ inv[1].st = "cancelled"
  /\ inv[1].yielded = <<Val("a"), Arr(<<Val("b"), Undef>>)>>
  /\ OutOf(1) = <<Val("a")>>
  /\ OutOf(2) # <<>>
  /\ outStatus = "open"

\* the output events one handler result stands for: nothing for undefined,
\* the defined elements for a collection, the value itself otherwise
ItemsOf(v) ==
  IF v.tag = "undef" THEN <<>>
  ELSE IF v.tag = "arr" THEN SelectSeq(v.elems, LAMBDA x : x.tag # "undef")
  ELSE <<v>>

\* the results invocation i has produced so far, in the order it produced them
Produced(i) ==
  IF inv[i].kind = "value" \/ inv[i].outcome = "resolved" THEN <<inv[i].val>>
  ELSE inv[i].yielded

RECURSIVE ItemsOfAll(_)
ItemsOfAll(s) ==
  IF s = <<>> THEN <<>>
  ELSE ItemsOfAll(SubSeq(s, 1, Len(s) - 1)) \o ItemsOf(s[Len(s)])

\* C12: under the accumulate policy, while the output stream has neither
\* failed nor been unsubscribed, every output an invocation has produced is
\* on the output stream, however the invocations' starts, results and ends
\* interleave: none is dropped because another invocation started or finished.
C12_AccumulateKeepsAll ==
  (~switch /\ outStatus \in {"open", "completed"}) =>
    \A i \in DOMAIN inv : OutOf(i) = ItemsOfAll(Produced(i))

\* two overlapping producers: the second started and emitted between two
\* steps of the first, and finished first
C12_Witness ==
  /\ ~switch /\ Len(inv) = 2 /\ outStatus = "open"
  /\ inv[1].kind = "iter" /\ inv[2].kind = "iter"
  /\ inv[2].st = "finished" /\ inv[1].st = "active"
  /\ out = <<[inv |-> 1, val |-> Val("a")], [inv |-> 2, val |-> Val("a")],
             [inv |-> 1, val |-> Val("b")]>>

IsPrefix(a, b) == Len(a) <= Len(b) /\ a = SubSeq(b, 1, Len(a))

\* C13: the output events of one invocation appear in the order it produced
\* them: collection elements in collection order, producer steps in pull
\* order, a yielded collection's elements in order at that step's position.
\* What an invocation has emitted is always a leading part of what its
\* results stand for, and all of it once the invocation has finished.
C13_OrderWithinInvocation ==
  \A i \in DOMAIN inv :
    LET emitted == OutOf(i)
        produced == ItemsOfAll(Produced(i))
    IN IF inv[i].st = "finished" THEN emitted = produced
       ELSE IsPrefix(emitted, produced)

\* a producer whose first step yielded a value and whose second step yielded
\* a collection has finished, while another invocation emitted in between
C13_Witness ==
  /\ Len(inv) = 2 /\ ~switch
  /\ inv[1].kind = "iter" /\ inv[1].st = "finished" /\ inv[1].outcome = "done"
  /\ inv[1].yielded = <<Val("a"), Arr(<<Val("b"), Undef>>)>>
  /\ OutOf(1) = <<Val("a"), Val("b")>>
  /\ inv[2].kind = "promise" /\ inv[2].val = Arr(<<Val("a"), Val("b")>>)
  /\ out[2] = [inv |-> 2, val |-> Val("a")] /\ out[3] = [inv |-> 2, val |-> Val("b")]

\* C14: the output stream is completed only when the input stream has
\* completed and, under the accumulate policy, every started invocation has
\* finished; what the invocations that finished after the input completed
\* produced is on the output stream by then; and nothing is emitted on a
\* completed output stream.
C14_CompletionNotEarly ==
  /\ [](outStatus = "completed" =>
          /\ inStatus = "completed"
          /\ ~switch => \A i \in DOMAIN inv :
                          /\ inv[i].st = "finished"
                          /\ OutOf(i) = ItemsOfAll(Produced(i)))
  /\ [][outStatus = "completed" => out' = out /\ outStatus' = "completed"]_vars

\* the output has completed after the input completed and a promise and a
\* producer, running side by side, both delivered and finished
C14_Witness ==
  /\ ~switch /\ outStatus = "completed" /\ Len(inv) = 2
  /\ inv[1].kind = "promise" /\ inv[1].val = Val("a")
  /\ inv[2].kind = "iter" /\ inv[2].yielded = <<Val("a")>>
  /\ out = <<[inv |-> 2, val |-> Val("a")], [inv |-> 1, val |-> Val("a")]>>

\* C15: under the accumulate policy, once the input stream has completed and
\* every started invocation has finished, by delivering its result or by a
\* failure that went to the error sink, the output stream is completed.
C15_AccumulateCompletes ==
  (~switch /\ inStatus = "completed" /\ \A i \in DOMAIN inv : inv[i].st = "finished")
    => outStatus = "completed"

\* the output has completed after a producer ran to its end and a promise
\* was rejected into the error sink
C15_Witness ==
  /\ ~switch /\ inStatus = "completed" /\ outStatus = "completed" /\ Len(inv) = 2
  /\ inv[1].kind = "iter" /\ inv[1].outcome = "done" /\ inv[1].st = "finished"
  /\ inv[2].kind = "promise" /\ inv[2].outcome = "rejected" /\ inv[2].st = "finished"
  /\ SinkCallsFor(2) # {}

\* C16: under the preempt policy, once the input stream has completed and the
\* most recently started invocation has finished, the output stream is
\* completed, whether or not earlier, abandoned invocations have settled.
C16_PreemptCompletes ==
  (switch /\ inStatus = "completed" /\ inv # <<>> /\ inv[Len(inv)].st = "finished")
    => outStatus = "completed"

\* the output has completed although the abandoned first invocation's
\* promise is still pending
C16_Witness ==
  /\ switch /\ inStatus = "completed" /\ outStatus = "completed" /\ Len(inv) = 2
  /\ inv[1].kind = "promise" /\ inv[1].st = "cancelled" /\ inv[1].outcome = "-"
  /\ inv[2].kind = "iter" /\ inv[2].st = "finished" /\ OutOf(2) # <<>>

\* C17: under the preempt policy the error sink is called for an invocation
\* only while no later invocation has started, so a promise that rejects
\* after the next event has arrived is never reported; the rejection changes
\* nothing on the output side and leaves the later invocation as it was, and
\* what the later invocation produces while connected is emitted.
C17_PreemptedRejectionSilent ==
  /\ [](switch =>
          /\ \A k \in DOMAIN logged : logged[k].seen = logged[k].inv
          /\ \A i \in DOMAIN inv :
               (inv[i].kind = "promise" /\ inv[i].outcome = "rejected" /\ i < Len(inv)
                  /\ SinkCallsFor(i) = {} /\ inv[Len(inv)].st \in {"active", "finished"})
                 => OutOf(Len(inv)) = ItemsOfAll(Produced(Len(inv))))
  /\ [][\A i \in DOMAIN inv :
          (switch /\ i < Len(inv) /\ inv[i].kind = "promise"
             /\ inv[i].outcome = "-" /\ inv'[i].outcome = "rejected")
            => /\ logged' = logged /\ out' = out /\ outStatus' = outStatus
               /\ \A j \in DOMAIN inv : j # i => inv'[j] = inv[j]]_vars

\* the first invocation's promise rejected after the second event arrived:
\* the sink was not called and the second invocation's value is on the output
C17_Witness ==
  /\ switch /\ Len(inv) = 2
  /\ inv[1].kind = "promise" /\ inv[1].st = "cancelled" /\ inv[1].outcome = "rejected"
  /\ logged = <<>>
  /\ inv[2].kind = "promise" /\ inv[2].outcome = "resolved"
  /\ out = <<[inv |-> 2, val |-> Val("a")]>>

\* C18 as stated: the error sink is called in invocation order: when two
\* invocations both fail, the earlier-started one is reported first, whichever
\* of the two failures happens first.
C18_SinkInInvocationOrder ==
  \A k1 \in DOMAIN logged, k2 \in DOMAIN logged :
    k1 < k2 => logged[k1].inv <= logged[k2].inv

\* C18 (amended): the error sink is called in the order in which the failures
\* happen: the failure of a connected invocation is reported in the step in
\* which its promise rejects or its iterator fails, after everything reported
\* before; under the preempt policy, where only the latest invocation can
\* report, this is also invocation order.
C18_SinkInFailureOrder ==
  /\ [][\A i \in DOMAIN inv :
          FailsNow(i) =>
            logged' = Append(logged, [inv |-> i, err |-> inv'[i].err,
                                      threw |-> logged'[Len(logged')].threw,
                                      seen |-> Len(inv)])]_vars
  /\ [](switch => C18_SinkInInvocationOrder)

\* under the accumulate policy the second invocation failed first and was
\* reported first; the first invocation's failure was reported after it
C18_Witness ==
  /\ ~switch /\ Len(logged) = 2
  /\ logged[1].inv = 2 /\ logged[2].inv = 1
  /\ inv[1].kind = "promise" /\ inv[2].kind = "iter"

\* C19: no pull is issued on the producer of a cancelled invocation: a step
\* that leaves an invocation cancelled, or finds it cancelled, does not add
\* to its pulls, also when the cancellation happens inside the delivery of
\* one of its output events.
C19_NoPullAfterCancel ==
  [][\A i \in DOMAIN inv :
       inv'[i].st = "cancelled" => inv'[i].pulls = inv[i].pulls]_vars

\* C20: a pull that was in flight when its invocation was cancelled finishes,
\* and the value it yields is discarded: the events of a cancelled producer
\* on the output stream all come from the steps before that one, and the
\* step that yields it leaves the output stream untouched.
C20_InFlightValueDiscarded ==
  /\ [](\A i \in DOMAIN inv :
          inv[i].outcome = "broke" =>
            IsPrefix(OutOf(i),
                     ItemsOfAll(SubSeq(inv[i].yielded, 1, Len(inv[i].yielded) - 1))))
  /\ [][\A i \in DOMAIN inv :
          (inv[i].st = "cancelled" /\ Len(inv'[i].yielded) > Len(inv[i].yielded))
            => out' = out /\ inv'[i].outcome = "broke" /\ inv'[i].pulls = inv[i].pulls]_vars

\* a producer was preempted after its first step was emitted; its second
\* pull then finished with a collection, of which nothing was emitted
C20_Witness ==
  /\ Len(inv) = 2 /\ inv[1].kind = "iter" /\ inv[1].outcome = "broke"
  /\ inv[1].yielded = <<Val("a"), Arr(<<Val("b"), Undef>>)>>
  /\ out = <<[inv |-> 1, val |-> Val("a")]>>
  /\ outStatus = "open" /\ inv[2].st = "active"

\* C21: in raw mode the handler has been invoked exactly as many times as the
\* effect has been subscribed to: not at all before the first subscription,
\* once for each subscription.
C21_HandlerOncePerSubscription == raw.calls = raw.subs

DefinedOnly(s) == SelectSeq(s, LAMBDA x : x.tag # "undef")

\* the generator has neither been abandoned (return()) nor failed
GenRunning == raw.gen \in {"idle", "await", "drain", "finished"}

\* C22 as stated: the sequence handed to the handler delivers the items of
\* the input stream in arrival order, each exactly once: what was handed
\* over followed by what is still buffered is what was received, and the
\* sequence ends only with the input completed and the buffer empty.
C22_SequenceLosesNothing ==
  /\ IsPrefix(raw.handed, raw.received)
  /\ GenRunning => raw.handed \o raw.buffer = raw.received
  /\ raw.gen = "finished" => raw.inStatus = "completed" /\ raw.buffer = <<>>

\* C22 (amended): the same for the items that are not undefined; an item
\* that is undefined is taken off the buffer and never handed over.
C22_DefinedItemsOnce ==
  /\ IsPrefix(raw.handed, DefinedOnly(raw.received))
  /\ GenRunning => raw.handed \o DefinedOnly(raw.buffer) = DefinedOnly(raw.received)
  /\ raw.gen = "finished" =>
       /\ raw.inStatus = "completed" /\ raw.buffer = <<>>
       /\ raw.handed = DefinedOnly(raw.received)

\* the input has completed after three items, the second undefined; the
\* first was handed over and the generator is serving the backlog
C22_Witness ==
  /\ raw.inStatus = "completed" /\ raw.gen = "drain"
  /\ raw.received = <<Val("foo"), Undef, Val("baz")>>
  /\ raw.handed = <<Val("foo")>>
  /\ raw.buffer = <<Undef, Val("baz")>>

\* C23: in raw mode a pull on the input sequence waits on the pending signal
\* whenever the buffer is empty and the input stream is still open, at the
\* first pull and at every later one: the generator is never at its await
\* with an empty buffer, an open input and a settled signal, and never goes
\* round its loop without finding an item or the end of the input.
C23_PullBlocksOnSignal ==
  /\ (raw.gen = "await" /\ raw.buffer = <<>> /\ raw.inStatus = "open")
       => raw.signal = "pending"
  /\ raw.spins = 0

\* C24: in raw mode a failure of the input stream, before the first item or
\* after any number of them, reaches the handler through its pending pull:
\* once the input has failed, the generator has thrown the failure into the
\* handler, or is at its await with the signal rejected and about to, unless
\* it was abandoned before.
C24_InputFailureReachesHandler ==
  raw.inStatus = "failed" =>
    \/ raw.gen = "failed" /\ raw.h = "failed"
    \/ raw.gen = "await" /\ raw.signal = "rejected"
    \/ raw.gen = "returned"

\* the generator can only go on when another input item, or the end of the
\* input, arrives: it waits on the pending signal, or goes round its loop
\* over an empty buffer
RawWaitsForInput ==
  /\ raw.gen = "await"
  /\ \/ raw.signal = "pending"
     \/ raw.signal = "resolved" /\ raw.buffer = <<>> /\ ~raw.done

\* C25: in raw mode cancelling the downstream subscription releases the input
\* stream without the help of another input item: a cancelled effect whose
\* generator is waiting for input has unsubscribed from the input stream.
C25_CancelReleasesInput ==
  (raw.outStatus = "unsubscribed" /\ RawWaitsForInput) => raw.sub = "unsubscribed"

UpAll(s) == [k \in DOMAIN s |-> Up(s[k])]

\* C26 as stated: in raw mode, with the handler that yields one output per
\* item it pulls, the output stream carries one event per input item, in
\* arrival order, and completes once the input stream has completed and the
\* handler's producer is done, not before.
C26_OneOutputPerItem ==
  /\ IsPrefix(raw.out, UpAll(raw.received))
  /\ (raw.outStatus = "completed" /\ raw.inStatus # "failed") =>
       /\ raw.inStatus = "completed" /\ raw.h = "finished"
       /\ raw.out = UpAll(raw.received)
  /\ (raw.inStatus = "completed" /\ raw.h = "finished" /\ raw.outStatus # "unsubscribed")
       => raw.outStatus = "completed"

\* C26 (amended): the same, one event per input item that is not undefined.
C26_OneOutputPerDefinedItem ==
  /\ IsPrefix(raw.out, UpAll(DefinedOnly(raw.received)))
  /\ (raw.outStatus = "completed" /\ raw.inStatus # "failed") =>
       /\ raw.inStatus = "completed" /\ raw.h = "finished"
       /\ raw.out = UpAll(DefinedOnly(raw.received))
  /\ (raw.inStatus = "completed" /\ raw.h = "finished" /\ raw.outStatus # "unsubscribed")
       => raw.outStatus = "completed"

\* the scenario of the test suite: foo and bar came in, the input completed,
\* FOO and BAR went out and the output completed
C26_Witness ==
  /\ raw.received = <<Val("foo"), Val("bar")>>
  /\ raw.inStatus = "completed" /\ raw.outStatus = "completed"
  /\ raw.out = <<Up(Val("foo")), Up(Val("bar"))>>

\* the failures of invocation i given to the error sink, in call order
SinkErrsOf(i) ==
  LET mine == SelectSeq(logged, LAMBDA l : l.inv = i)
  IN [k \in 1..Len(mine) |-> mine[k].err]

\* invocations i and j got structurally identical handler results: same
\* kind, same values in the same order, same end (done, or failure at the
\* same point with the same error)
SameResult(i, j) ==
  /\ inv[i].kind = inv[j].kind /\ inv[i].val = inv[j].val /\ inv[i].err = inv[j].err
  /\ inv[i].outcome = inv[j].outcome /\ inv[i].yielded = inv[j].yielded

C28_GetLatest ==
  /\ gl.promise = "resolved" =>
       /\ \A i \in 1..gl.n : gl.seen[i] # <<>>
       /\ \E i \in 1..gl.n : Len(gl.seen[i]) = 1
       /\ IF gl.n = 1
          THEN gl.result = GLValue(1, 1)
          ELSE /\ DOMAIN gl.result = 1..gl.n
               /\ \A i \in 1..gl.n : gl.result[i] = GLValue(i, Len(gl.seen[i]))
  /\ gl.promise # "resolved" => \E i \in 1..gl.n : gl.seen[i] = <<>>

\* three observables: the first emitted twice before the other two emitted
\* once each; the promise holds the first one's second value and the others'
\* first
C28_Witness ==
  /\ gl.n = 3 /\ gl.promise = "resolved"
  /\ Len(gl.seen[1]) = 2
  /\ gl.result = <<GLValue(1, 2), GLValue(2, 1), GLValue(3, 1)>>

\* C29: under the preempt policy at most one invocation is connected to the
\* output stream at any time, and it is the most recently started one: every
\* invocation started before it has been disconnected (cancelled, unless it
\* had already finished).
C29_OneActiveUnderPreempt ==
  switch =>
    /\ Cardinality({ i \in DOMAIN inv : inv[i].st = "active" }) <= 1
    /\ \A i \in DOMAIN inv :
         i < Len(inv) => inv[i].st \in {"cancelled", "finished"}

\* the first invocation's producer is still running, cancelled, while the
\* second invocation is the active one
C29_Witness ==
  /\ switch /\ Len(inv) = 2
  /\ inv[1].kind = "iter" /\ inv[1].st = "cancelled" /\ inv[1].outcome = "-"
  /\ inv[2].st = "active"

\* this step: the producer of the connected invocation i fails at a pull
ProducerFailsNow(i) == FailsNow(i) /\ inv[i].kind = "iter"

\* once its producer has failed, invocation i emits nothing and its producer
\* is not pulled or advanced again
QuietAfterFailure ==
  \A i \in DOMAIN inv :
    (inv[i].kind = "iter" /\ inv[i].outcome = "threw") =>
      /\ OutOfIn(out', i) = OutOfIn(out, i)
      /\ inv'[i].pulls = inv[i].pulls /\ inv'[i].yielded = inv[i].yielded

StepEvents(i, k) ==
  LET items == ItemsOf(StepAt(k))
  IN [n \in 1..Len(items) |-> [inv |-> i, val |-> items[n]]]

\* the first k steps of two invocations taken in turn: step 1 of invocation
\* 1, step 1 of invocation 2, step 2 of invocation 1, ...
RECURSIVE StepByStep(_)
StepByStep(k) ==
  IF k = 0 THEN <<>>
  ELSE StepByStep(k - 1) \o StepEvents(1, k) \o StepEvents(2, k)

\* both invocations need the same number of microtask turns for each pull
SameHops == mq.hops[1] = mq.hops[2]

\* C31 as stated: under the accumulate policy, when two input events arrive
\* in the same synchronous turn and the handler is a generator, the outputs
\* interleave step by step in invocation start order, whatever the generator
\* does between two yields.
C31_StepByStepAlways == IsPrefix(out, StepByStep(MaxSteps))

\* C31 (amended): under the accumulate policy, when two input events arrive
\* in the same synchronous turn, the handler is a generator and each pull
\* takes both invocations the same number of microtask turns, the outputs
\* interleave step by step in invocation start order, and all of them are on
\* the output stream when both invocations have finished.
C31_StepByStepWhenSameHops ==
  SameHops =>
    /\ IsPrefix(out, StepByStep(MaxSteps))
    /\ (\A i \in DOMAIN inv : inv[i].st = "finished") => out = StepByStep(MaxSteps)

\* C31 witness: both invocations took the same turns, each yielded all its
\* values, and the output stream completed with the outputs of all steps
C31_Witness ==
  /\ SameHops
  /\ \E k \in 1..(MaxSteps + 1) : mq.hops[1][k] > 1
  /\ outStatus = "completed"
  /\ \A i \in DOMAIN inv : inv[i].st = "finished" /\ Len(inv[i].yielded) = MaxSteps
  /\ Len(out) >= 4
  /\ out = StepByStep(MaxSteps)

\* the output events the value v of invocation j produces
EventsOf(j, v) ==
  LET items == ItemsOf(v)
  IN [n \in 1..Len(items) |-> [inv |-> j, val |-> items[n]]]

\* invocation j was started by an event the sink pushed while it reported the
\* failure of the invocation before it, which was the active one
StartedFromSink(j) ==
  /\ j > 1 /\ j \in DOMAIN inv
  /\ inv[j - 1].st = "cancelled" /\ inv[j - 1].outcome \in {"rejected", "threw"}
  /\ \E k \in DOMAIN logged : logged[k].inv = j - 1 /\ ~logged[k].threw

\* C32: under the preempt policy, when the active invocation fails, the error
\* sink is called with the failure; an input event pushed from inside that
\* sink call is passed to the handler and starts a new invocation, and what
\* that invocation returns, resolves to or yields while it is connected is
\* emitted on the output stream.
C32_SinkPushStartsInvocation ==
  /\ [][\A i \in DOMAIN inv :
          (switch /\ FailsNow(i) /\ ArrivesNow) =>
            /\ logged' = Append(logged, [inv |-> i, err |-> inv'[i].err,
                                         threw |-> FALSE, seen |-> i])
            /\ calls' = Append(calls, received'[Len(received')])
            /\ Len(inv') = Len(inv) + 1
            /\ inv'[i].st = "cancelled"
            /\ LET n == inv'[Len(inv')]
               IN /\ n.kind \in {"promise", "iter"} =>
                       n.st = "active" /\ out' = out /\ outStatus' = "open"
                  /\ (n.kind = "value" /\ n.val.tag # "undef") =>
                       /\ n.st = "finished" /\ outStatus' = "open"
                       /\ out' = out \o EventsOf(Len(inv'), n.val)]_vars
  /\ [][\A j \in DOMAIN inv, v \in ResultValues \cup {StepAt(k) : k \in 1..MaxSteps} :
          (switch /\ StartedFromSink(j) /\ outStatus = "open" /\ DeliversNow(j, v))
            => out' = out \o EventsOf(j, v)]_vars

\* C32 witness: the first invocation's promise rejected, the sink was called
\* with the error and pushed the second event; the first invocation is
\* disconnected and the value the second one resolved to is on the output
C32_Witness ==
  /\ switch /\ Len(inv) = 2 /\ Len(received) = 2
  /\ inv[1].kind = "promise" /\ inv[1].outcome = "rejected" /\ inv[1].st = "cancelled"
  /\ logged = <<[inv |-> 1, err |-> "err", threw |-> FALSE, seen |-> 1]>>
  /\ inv[2].kind = "promise" /\ inv[2].outcome = "resolved"
  /\ outStatus = "open"
  /\ out = <<[inv |-> 2, val |-> Val("a")]>>

\* a handler result of none of the recognized shapes: an object that is not
\* a collection, has no then and lacks at least one of next, return, throw
Malformed(v) == v.tag = "obj" /\ "then" \notin v.v /\ ~(ProducerOps \subseteq v.v)

\* C33: a handler result that matches none of the recognized shapes, such as
\* an object with only some of next, return and throw, is emitted unchanged
\* as exactly one output event of its invocation, and the error sink is not
\* called for that invocation.
C33_MalformedResultEmittedAsIs ==
  \A i \in DOMAIN inv :
    (inv[i].kind = "value" /\ Malformed(inv[i].val)) =>
      /\ OutOf(i) = <<inv[i].val>>
      /\ SinkCallsFor(i) = {}
      /\ inv[i].st = "finished"

\* C33 witness: the handler returned an object that has next and return but
\* no throw, and that object is an event on the output stream
C33_Witness ==
  \E i \in DOMAIN inv :
    /\ inv[i].kind = "value" /\ inv[i].val = Obj({"next", "return"})
    /\ \E k \in DOMAIN out : out[k] = [inv |-> i, val |-> Obj({"next", "return"})]
    /\ logged = <<>>

\* an object that has a then
Thenable(v) == v.tag = "obj" /\ "then" \in v.v

\* C34 as stated: every handler result that has a then, instance of Promise
\* or not, is awaited, and the value it resolves to, never the object itself,
\* goes through the immediate-value rule: no output event is such an object.
C34_ThenableAwaited ==
  \A k \in DOMAIN out : ~Thenable(out[k].val)

\* this step tears inner subscriptions down: the output stream fails or is
\* unsubscribed, or the preempt policy switches to a new invocation
TeardownNow ==
  \/ outStatus = "open" /\ outStatus' \in {"failed", "unsubscribed"}
  \/ switch /\ Len(inv') = Len(inv) + 1

\* this step: the pull loop of invocation i takes a turn
LoopTurnNow(i) ==
  \/ inv'[i].pulls # inv[i].pulls
  \/ inv'[i].yielded # inv[i].yielded
  \/ inv'[i].outcome # inv[i].outcome

IdleAtAwait ==
  /\ raw.gen = "await" /\ raw.buffer = <<>> /\ ~raw.done /\ raw.inStatus = "open"

\* C36: in raw mode the signal is settled once and never armed again: after
\* the first item or the completion has been received it is resolved for
\* good, so a wait on it with the buffer empty and the input not completed
\* does not suspend; the generator goes round its loop, finds nothing and is
\* back at the wait, which is again ready to return.
C36_SignalIsOneShot ==
  /\ [][raw.signal # "pending" => raw'.signal = raw.signal]_vars
  /\ []((raw.received # <<>> \/ raw.inStatus = "completed") => raw.signal = "resolved")
  /\ []((IdleAtAwait /\ raw.received # <<>> /\ raw.spins < MaxSpins)
          => ENABLED GenWake(FALSE))
  /\ [][(IdleAtAwait /\ raw.received # <<>> /\ raw'.spins = raw.spins + 1) =>
          /\ raw'.gen = "await" /\ raw'.signal = "resolved"
          /\ raw'.handed = raw.handed /\ raw'.buffer = <<>>]_vars

\* C36 witness: after one item was handed on, the generator has gone round
\* its loop with an empty buffer and an open input, and is at the wait again
C36_Witness ==
  /\ IdleAtAwait
  /\ raw.handed # <<>>
  /\ raw.signal = "resolved"
  /\ raw.spins >= 1

\* this step: the generator wakes on the failure of an input stream that has
\* delivered nothing, while the effect is subscribed
EarlyFailureSurfaces ==
  /\ raw.gen = "await" /\ raw.signal = "rejected" /\ raw.received = <<>>
  /\ raw.outStatus = "open"
  /\ raw'.gen = "failed"

C38_SinkFailureEndsStream ==
  [][SinkThrowsNow =>
       /\ outStatus = "open" /\ outStatus' = "failed" /\ outErr' = "sinkErr"
       /\ inStatus' = inStatus
       /\ NoActive(inv')
       /\ out' = out]_vars

\* C38 witness: the sink threw while reporting a rejected promise; the input
\* had not failed, and the output stream has failed with the sink's error
C38_Witness ==
  /\ \E k \in DOMAIN logged :
       logged[k].threw /\ inv[logged[k].inv].outcome = "rejected"
  /\ inStatus = "open"
  /\ outStatus = "failed" /\ outErr = "sinkErr"

\* C39: once the output stream has completed, failed or been unsubscribed,
\* nothing is emitted on it and the error sink is not called any more,
\* whatever the promises and iterators of the invocations still in flight do.
C39_SilentAfterTermination ==
  [][outStatus # "open" =>
       /\ out' = out /\ logged' = logged
       /\ outStatus' = outStatus /\ outErr' = outErr]_vars

\* C39 witness: the output stream was unsubscribed or failed with the input
\* while two promises were pending; one has resolved with a value and the
\* other has rejected since, and neither an output event nor a sink call came
\* of them
C39_Witness ==
  \E i \in DOMAIN inv, j \in DOMAIN inv :
    /\ ~switch /\ outStatus \in {"unsubscribed", "failed"} /\ outErr \in {"-", "inErr"}
    /\ inv[i].kind = "promise" /\ inv[i].st = "cancelled"
    /\ inv[i].outcome = "resolved" /\ inv[i].val = Val("a")
    /\ inv[j].kind = "promise" /\ inv[j].st = "cancelled"
    /\ inv[j].outcome = "rejected"
    /\ out = <<>> /\ logged = <<>>

====
